---------------------------- MODULE Spec2Model ----------------------------
(***************************************************************************)
(* A model of the dynamic record engine of src/src/dynamic_types.rs (and   *)
(* of the older copy of DynamicStruct::cast kept in src/src/main.rs).      *)
(*                                                                         *)
(*   - StaticTypeLayout::of, DefaultBytes::default_bytes: the descriptor   *)
(*     of a compile-time type (size, align, default byte image, drop_fn).  *)
(*   - DynamicTypeLayout::new: the field packing loop.                     *)
(*   - TypeRegistry::add_dyn / get_dynamic_layout / create_dynamic.        *)
(*   - DynamicStruct: new, the checked (try_) and the panicking accessors, *)
(*     cast, and Drop.                                                     *)
(*                                                                         *)
(* Bytes are numbers 0..255 in little-endian order (the x86_64 build).     *)
(* A value of a type that needs drop (Arc<TestCrap>) is a handle on a heap *)
(* allocation; allocations are numbered 1..MaxRes and a handle's bytes are *)
(* the allocation's address.                                               *)
(***************************************************************************)
EXTENDS Integers, Sequences, FiniteSets, TLC

\* ------------------------------------------------------------------ bounds

\* Longest field list handed to DynamicTypeLayout::new in SpecLayout.
MaxFields == 3

\* Longest field list of a schema that is registered and instantiated in Spec.
MaxInstFields == 2

\* Number of heap allocations (Arc::new) a run may make.
MaxRes == 3

\* Threads that use one registry, and the registry calls they make in all.
MaxThreads == 2
MaxCalls == 3

\* ------------------------------------------------------------ type catalog

\* The compile-time types T the model instantiates the generic code with.
\* "()" is a zero-sized type, "[u64; 0]" a zero-sized type with alignment 8,
\* "Arc" is alloc::sync::Arc<TestCrap> (main.rs:31), the one type that needs drop.
Types == {"u8", "i32", "Arc", "()", "[u64; 0]"}

\* std::mem::size_of::<T>()
size_of(T) ==
    CASE T = "u8" -> 1
      [] T = "i32" -> 4
      [] T = "Arc" -> 8
      [] T = "()" -> 0
      [] T = "[u64; 0]" -> 0

\* std::mem::align_of::<T>()
align_of(T) ==
    CASE T = "u8" -> 1
      [] T = "i32" -> 4
      [] T = "Arc" -> 8
      [] T = "()" -> 1
      [] T = "[u64; 0]" -> 8

\* std::mem::needs_drop::<T>()
needs_drop(T) == T = "Arc"

\* std::any::type_name::<T>()
type_name(T) == IF T = "Arc" THEN "alloc::sync::Arc<TestCrap>" ELSE T

\* TypeId::of::<T>(): one identity per type.
TypeId_of(T) == T

\* StaticTypeLayout::of::<T>(): default is T::default_bytes, kept as the type
\* it produces the image of; drop_fn is Some(drop_in_place::<T>), kept as T,
\* iff needs_drop::<T>(), and None otherwise.
StaticTypeLayout_of(T) ==
    [ type_id |-> TypeId_of(T),
      size    |-> size_of(T),
      align   |-> align_of(T),
      default |-> T,
      drop_fn |-> IF needs_drop(T) THEN T ELSE "None",
      name    |-> type_name(T) ]

\* ------------------------------------------------------------------- bytes

Pow256(k) == IF k = 0 THEN 1 ELSE IF k = 1 THEN 256 ELSE IF k = 2 THEN 65536 ELSE 16777216

\* The k low bytes of the two's complement representation of n, least
\* significant first (the model's numbers fit in 4 bytes: bytes 5.. are the
\* sign extension).
LE(n, k) ==
    [i \in 1..k |-> IF i <= 4 THEN (n \div Pow256(i - 1)) % 256
                    ELSE IF n < 0 THEN 255 ELSE 0]

\* The signed 32-bit number four little-endian bytes stand for.
FromLE32(bs) ==
    bs[1] + 256 * bs[2] + 65536 * bs[3]
      + 16777216 * (IF bs[4] >= 128 THEN bs[4] - 256 ELSE bs[4])

\* Address of heap allocation id (the pointer an Arc holds).
AddrOf(id) == 16 * id

\* The allocation an 8-byte pointer addresses; 0 when it addresses none.
AllocAt(bs) ==
    IF Len(bs) = 8 /\ (\A i \in 2..8 : bs[i] = 0) /\ bs[1] % 16 = 0
    THEN bs[1] \div 16 ELSE 0

\* The in-memory representation of value v of type T (what `*ptr = val` stores).
ToBytes(T, v) ==
    CASE T = "u8" -> <<v % 256>>
      [] T = "i32" -> LE(v, 4)
      [] T = "Arc" -> LE(AddrOf(v), 8)
      [] OTHER -> <<>>

\* The value of type T that bytes bs represent (what `&*ptr` reads).
FromBytes(T, bs) ==
    CASE T = "u8" -> bs[1]
      [] T = "i32" -> FromLE32(bs)
      [] T = "Arc" -> AllocAt(bs)
      [] OTHER -> 0

\* T::default(): 0 for the integers, the unit value for zero-sized types, and
\* for Arc a fresh allocation `fresh`.
DefaultValue(T, fresh) == IF T = "Arc" THEN fresh ELSE 0

\* DefaultBytes::default_bytes: the byte image of T::default(); the value is
\* forgotten (not dropped) when T needs drop, so the image owns the allocation.
default_bytes(T, fresh) == ToBytes(T, DefaultValue(T, fresh))

Zeros(n) == [i \in 1..n |-> 0]

\* bs[from+1 .. from+n] (0-based offset `from`, as the code indexes).
Slice(bs, from, n) == [i \in 1..n |-> bs[from + i]]

\* A copy that runs one byte past the end of w (the byte after is zeroed).
WriteAt_Spill(bs, at, w) ==
    [i \in 1..Len(bs) |-> IF i > at /\ i <= at + Len(w) THEN w[i - at]
                          ELSE IF i = at + Len(w) + 1 THEN 0 ELSE bs[i]]

\* bs with the bytes of w copied over it from 0-based offset `at`.
WriteAt(bs, at, w) ==
    [i \in 1..Len(bs) |-> IF i > at /\ i <= at + Len(w) THEN w[i - at] ELSE bs[i]]

\* --------------------------------------------------- DynamicTypeLayout::new

\* A field list entry is (name, &StaticTypeLayout): [name, ty].
Contains(seq, x) == \E j \in 1..Len(seq) : seq[j] = x

EmptyMap == [n \in {} |-> 0]

\* An insert that leaves an occupied key alone (entry(k).or_insert(v)).
MapInsert_KeepFirst(m, k, v) ==
    [n \in (DOMAIN m) \cup {k} |-> IF n \in DOMAIN m THEN m[n] ELSE v]

\* An insert into a map built anew: the other entries are gone.
MapInsert_Alone(m, k, v) == [n \in {k} |-> v]

\* HashMap::insert(key, value): a later insert under the same key overwrites.
MapInsert(m, k, v) == [n \in (DOMAIN m) \cup {k} |-> IF n = k THEN v ELSE m[n]]

NewStart ==
    [ field_types |-> <<>>, field_offsets |-> <<>>, field_sizes |-> <<>>,
      name_to_index |-> EmptyMap, field_type_names |-> <<>>,
      field_defaults |-> <<>>, field_drop_fns |-> <<>>,
      total_size |-> 0, offset |-> 0, panic |-> "" ]

\* The duplicate test of the loop: the code looks the field's NAME up in
\* field_type_names, the list of the TYPE names pushed so far.
NewDuplicate(st, field) == Contains(st.field_type_names, field.name)

\* NewAlign without the `remainder != 0` test: an aligned cursor is moved on
\* by a whole alignment.
NewAlign_NoTest(offset, align) == offset + (align - (offset % align))

\* The cursor rounded up to the field's alignment (lines 160-163).
NewAlign(offset, align) ==
    LET remainder == offset % align
    IN  IF remainder # 0 THEN offset + (align - remainder) ELSE offset

\* One iteration of the loop over fields (0-based index, as enumerate()).
NewStep(st, index, field) ==
    LET d == StaticTypeLayout_of(field.ty)
        offset == NewAlign(st.offset, d.align)
    IN  IF NewDuplicate(st, field)
        THEN [st EXCEPT !.panic = "Same field name declared multiple times."]
        ELSE [ field_types      |-> Append(st.field_types, d.type_id),
               field_offsets    |-> Append(st.field_offsets, offset),
               field_sizes      |-> Append(st.field_sizes, d.size),
               name_to_index    |-> MapInsert(st.name_to_index, field.name, index),
               field_type_names |-> Append(st.field_type_names, d.name),
               field_defaults   |-> Append(st.field_defaults, d.default),
               field_drop_fns   |-> Append(st.field_drop_fns, d.drop_fn),
               total_size       |-> st.total_size + d.size,
               offset           |-> offset + d.size,
               panic            |-> "" ]

RECURSIVE NewLoop(_, _, _)
NewLoop(fields, i, st) ==
    IF i > Len(fields) \/ st.panic # "" THEN st
    ELSE NewLoop(fields, i + 1, NewStep(st, i - 1, fields[i]))

\* total_size = total_size + (offset % total_size): the remainder by zero
\* panics (in every build profile).
NewTotal(st) ==
    IF st.panic # "" THEN st
    ELSE IF st.total_size = 0
         THEN [st EXCEPT !.panic = "attempt to calculate the remainder with a divisor of zero"]
         ELSE [st EXCEPT !.total_size = st.total_size + (st.offset % st.total_size)]

\* DynamicTypeLayout::new(name, fields): the layout, or panic # "" when
\* construction panicked (then no layout exists).
DynamicTypeLayout_new(name, fields) ==
    LET st == NewTotal(NewLoop(fields, 1, NewStart))
    IN  [ name |-> name, panic |-> st.panic,
          field_types |-> st.field_types, field_offsets |-> st.field_offsets,
          field_sizes |-> st.field_sizes, field_defaults |-> st.field_defaults,
          field_drop_fns |-> st.field_drop_fns, name_to_index |-> st.name_to_index,
          total_size |-> st.total_size, field_type_names |-> st.field_type_names ]

\* The value of a layout slot that holds no layout.
NoLayout ==
    [ name |-> "", panic |-> "none",
      field_types |-> <<>>, field_offsets |-> <<>>, field_sizes |-> <<>>,
      field_defaults |-> <<>>, field_drop_fns |-> <<>>, name_to_index |-> EmptyMap,
      total_size |-> 0, field_type_names |-> <<>> ]


\* ------------------------------------------------------------ destructors

\* drop_in_place::<Arc<TestCrap>> on a handle of allocation id: one more
\* destruction of that value.  An id that names no allocation (a dangling or
\* garbage pointer) is counted nowhere.
Destroy(dr, id) == IF id \in DOMAIN dr THEN [dr EXCEPT ![id] = @ + 1] ELSE dr

\* A drop function applied to the bytes its pointer argument points at.
CallDropFn(fn, bs, dr) ==
    IF fn = "None" THEN dr ELSE Destroy(dr, FromBytes(fn, bs))

\* The bytes from 0-based offset `from` to the end, cut to n bytes when the
\* buffer has them (a pointer read of n bytes).
ReadAt(bs, from, n) ==
    [i \in 1..(IF from + n <= Len(bs) THEN n ELSE IF from <= Len(bs) THEN Len(bs) - from ELSE 0)
        |-> bs[from + i]]

\* ------------------------------------------------------------- results

\* What an operation handed back: Ok(out), Err(DynamicFieldError), or a panic.
\* out is <<v>> for a value read, <<>> otherwise; value is <<v>> for the value an
\* error hands back.
Ok(out) ==
    [ kind |-> "Ok", variant |-> "", name |-> "", index |-> -1, value |-> <<>>,
      type_requested |-> "", actual_type |-> "", out |-> out ]

Err(variant, name, index, value, type_requested, actual_type) ==
    [ kind |-> "Err", variant |-> variant, name |-> name, index |-> index,
      value |-> value, type_requested |-> type_requested,
      actual_type |-> actual_type, out |-> <<>> ]

Panic(msg) ==
    [ kind |-> "Panic", variant |-> msg, name |-> "", index |-> -1, value |-> <<>>,
      type_requested |-> "", actual_type |-> "", out |-> <<>> ]

\* The memory an accessor works on: the instance's buffer, the destructions of
\* each allocation so far, the destructor runs an assignment made per slot, and
\* the arguments destroyed by unwinding.
Mem(d, dr, ad, ud) == [data |-> d, drops |-> dr, assignDrops |-> ad, unwindDrops |-> ud]

Ret(mem, res) == [mem |-> mem, res |-> res]

\* A value the callee owned when it panicked is dropped by the unwinding.
DropArg(mem, T, v) ==
    IF needs_drop(T)
    THEN [mem EXCEPT !.drops = Destroy(mem.drops, v), !.unwindDrops = @ + 1]
    ELSE mem

\* -------------------------------------------- DynamicTypeLayout accessors

\* type_is::<T>(index): self.field_types[index] == TypeId::of::<T>().  The
\* indexing panics when index is not below the number of fields.
type_is(L, index, T) ==
    IF index >= Len(L.field_types) THEN "panic"
    ELSE IF L.field_types[index + 1] = TypeId_of(T) THEN "true" ELSE "false"

\* The store as ptr.write(val) would make it: the bytes are overwritten and
\* the T the place held is not dropped.
set_field_unchecked_by_index_PtrWrite(L, mem, index, T, v) ==
    [mem EXCEPT !.data = WriteAt(mem.data, L.field_offsets[index + 1], ToBytes(T, v))]

\* set_field_unchecked_by_index: `*ptr = val` at the field's offset.  The
\* assignment through the raw pointer first drops the T the place holds (drop
\* glue of T, a no-op unless T needs drop) and then moves val in.
set_field_unchecked_by_index(L, mem, index, T, v) ==
    LET off == L.field_offsets[index + 1]
        old == FromBytes(T, ReadAt(mem.data, off, size_of(T)))
    IN  [ data        |-> WriteAt(mem.data, off, ToBytes(T, v)),
          drops       |-> IF needs_drop(T) THEN Destroy(mem.drops, old) ELSE mem.drops,
          assignDrops |-> IF needs_drop(T)
                          THEN [mem.assignDrops EXCEPT ![index + 1] = @ + 1]
                          ELSE mem.assignDrops,
          unwindDrops |-> mem.unwindDrops ]

\* get_field_ref_unchecked_by_index / get_field_mut_unchecked_by_index /
\* clone_field_unchecked_by_index: the T at the field's offset.
get_field_ref_unchecked_by_index(L, data, index, T) ==
    FromBytes(T, ReadAt(data, L.field_offsets[index + 1], size_of(T)))

\* try_set_field_by_index whose type-mismatch error does not hand the value
\* back (the value is kept by nobody).
try_set_field_by_index_LosesValue(L, mem, index, T, v) ==
    LET t == type_is(L, index, T)
    IN  IF t = "panic" THEN Ret(DropArg(mem, T, v), Panic("index out of bounds"))
        ELSE IF t = "true"
        THEN Ret(set_field_unchecked_by_index(L, mem, index, T, v), Ok(<<>>))
        ELSE Ret(mem, Err("SetInvalidTypeOfField", "", -1, <<>>, type_name(T),
                          L.field_type_names[index + 1]))

\* try_set_field_by_index
try_set_field_by_index(L, mem, index, T, v) ==
    LET t == type_is(L, index, T)
    IN  IF t = "panic" THEN Ret(DropArg(mem, T, v), Panic("index out of bounds"))
        ELSE IF t = "true"
        THEN IF Len(L.field_offsets) < index
             THEN Ret(mem, Err("FieldSetIndexOutOfBounds", "", index, <<v>>, "", ""))
             ELSE Ret(set_field_unchecked_by_index(L, mem, index, T, v), Ok(<<>>))
        ELSE Ret(mem, Err("SetInvalidTypeOfField", "", -1, <<v>>, type_name(T),
                          L.field_type_names[index + 1]))

\* try_set_field
try_set_field(L, mem, name, T, v) ==
    IF name \in DOMAIN L.name_to_index
    THEN try_set_field_by_index(L, mem, L.name_to_index[name], T, v)
    ELSE Ret(mem, Err("SetFieldNameNotFound", name, -1, <<v>>, "", ""))

\* try_get_field_ref_by_index (try_get_field_mut_by_index and
\* try_clone_field_by_index have the same body up to the unchecked read).
try_get_field_ref_by_index(L, data, index, T) ==
    LET t == type_is(L, index, T)
    IN  IF t = "panic" THEN Panic("index out of bounds")
        ELSE IF t = "true"
        THEN IF Len(L.field_offsets) < index
             THEN Err("FieldGetIndexOutOfBounds", "", index, <<>>, "", "")
             ELSE Ok(<<get_field_ref_unchecked_by_index(L, data, index, T)>>)
        ELSE Err("GetInvalidTypeOfField", "", -1, <<>>, type_name(T),
                 L.field_type_names[index + 1])

\* try_get_field_ref looking the name up as get_field_ref does
\* (self.name_to_index[name]).
try_get_field_ref_Indexing(L, data, name, T) ==
    IF name \in DOMAIN L.name_to_index
    THEN try_get_field_ref_by_index(L, data, L.name_to_index[name], T)
    ELSE Panic("key not found")

\* try_get_field_ref (try_get_field_mut and try_clone_field likewise)
try_get_field_ref(L, data, name, T) ==
    IF name \in DOMAIN L.name_to_index
    THEN try_get_field_ref_by_index(L, data, L.name_to_index[name], T)
    ELSE Err("GetFieldNameNotFound", name, -1, <<>>, "", "")

\* check_type::<T>(index): panics unless type_is::<T>(index).
check_type(L, index, T) == type_is(L, index, T) = "true"

\* set_field_by_index: check_type, then the unchecked store.
set_field_by_index(L, mem, index, T, v) ==
    IF check_type(L, index, T)
    THEN Ret(set_field_unchecked_by_index(L, mem, index, T, v), Ok(<<>>))
    ELSE Ret(DropArg(mem, T, v),
             Panic(IF type_is(L, index, T) = "panic" THEN "index out of bounds"
                   ELSE "Invalid type"))

\* set_field: self.name_to_index[name] panics on a name that is no key.
set_field(L, mem, name, T, v) ==
    IF name \in DOMAIN L.name_to_index
    THEN set_field_by_index(L, mem, L.name_to_index[name], T, v)
    ELSE Ret(DropArg(mem, T, v), Panic("key not found"))

\* get_field_ref_by_index (get_field_mut_by_index, clone_field_by_index)
get_field_ref_by_index(L, data, index, T) ==
    IF check_type(L, index, T)
    THEN Ok(<<get_field_ref_unchecked_by_index(L, data, index, T)>>)
    ELSE Panic(IF type_is(L, index, T) = "panic" THEN "index out of bounds"
               ELSE "Invalid type")

\* get_field_ref (get_field_mut, clone_field)
get_field_ref(L, data, name, T) ==
    IF name \in DOMAIN L.name_to_index
    THEN get_field_ref_by_index(L, data, L.name_to_index[name], T)
    ELSE Panic("key not found")


\* ------------------------------------------------------------ DynamicStruct

\* DynamicStruct::new: a zeroed buffer of total_size bytes, then every field's
\* default image copied in at its offset.  `&mut data[offset..]` panics when the
\* offset is past the buffer and `slice[index] = byte` when a byte falls outside
\* it.  next is the next unused allocation; Arc::default() takes one.
RECURSIVE DynamicStruct_new_loop(_, _, _, _)
DynamicStruct_new_loop(L, i, data, next) ==
    IF i > Len(L.field_defaults)
    THEN [panic |-> "", data |-> data, nextId |-> next]
    ELSE LET T == L.field_defaults[i]
             bytes == default_bytes(T, next)
             next2 == IF needs_drop(T) THEN next + 1 ELSE next
             off == L.field_offsets[i]
         IN  IF off > Len(data)
             THEN [panic |-> "slice start index out of range", data |-> data, nextId |-> next2]
             ELSE IF off + Len(bytes) > Len(data)
             THEN [panic |-> "index out of bounds", data |-> data, nextId |-> next2]
             ELSE DynamicStruct_new_loop(L, i + 1, WriteAt(data, off, bytes), next2)

DynamicStruct_new(L, next) == DynamicStruct_new_loop(L, 1, Zeros(L.total_size), next)

\* impl Drop for DynamicStruct: nothing on an empty buffer; otherwise every
\* Some(drop) of field_drop_fns is called on the bytes at the field's offset.
\* st = [drops, dropCalls]: dropCalls counts the calls Drop made per slot.
RECURSIVE DropLoop(_, _, _, _)
DropLoop(L, data, i, st) ==
    IF i > Len(L.field_drop_fns) THEN st
    ELSE LET fn == L.field_drop_fns[i]
         IN  IF fn = "None" THEN DropLoop(L, data, i + 1, st)
             ELSE DropLoop(L, data, i + 1,
                    [ drops |-> CallDropFn(fn, ReadAt(data, L.field_offsets[i], size_of(fn)),
                                           st.drops),
                      dropCalls |-> [st.dropCalls EXCEPT ![i] = @ + 1] ])

\* Drop without the is_empty test.
Drop_drop_NoEmptyTest(L, data, st) == DropLoop(L, data, 1, st)

Drop_drop(L, data, st) == IF data = <<>> THEN st ELSE DropLoop(L, data, 1, st)

\* The zeroed MaybeUninit returned without the copy.
VecToType_cast_Zeroed(bytes, sizeT, junk) == Zeros(sizeT)

\* VecToType::cast::<T> for Vec<u8>: size_of::<T>() bytes copied from the
\* vector's pointer.  Bytes past the vector's length are not the vector's:
\* what is read there is `junk`.
VecToType_cast(bytes, sizeT, junk) ==
    [i \in 1..sizeT |-> IF i <= Len(bytes) THEN bytes[i] ELSE junk]

\* cast without self.data.clear().
cast_NoClear(data, sizeT, junk) ==
    IF Len(data) # sizeT
    THEN [panic |-> "Invalid sized type", data |-> data, made |-> FALSE, out |-> <<>>]
    ELSE [panic |-> "", data |-> data, made |-> TRUE,
          out |-> VecToType_cast(data, sizeT, junk)]

\* DynamicStruct::cast::<T> (dynamic_types.rs): panics unless the buffer is
\* size_of::<T>() bytes long; otherwise clones the buffer, clears it and
\* reinterprets the clone.  [panic, data (the buffer left in self), out].
cast(data, sizeT, junk) ==
    IF Len(data) # sizeT
    THEN [panic |-> "Invalid sized type", data |-> data, made |-> FALSE, out |-> <<>>]
    ELSE [panic |-> "", data |-> <<>>, made |-> TRUE,
          out |-> VecToType_cast(data, sizeT, junk)]

\* DynamicStruct::cast::<T> as main.rs has it: the same without the size test.
cast_main(data, sizeT, junk) ==
    [panic |-> "", data |-> <<>>, made |-> TRUE, out |-> VecToType_cast(data, sizeT, junk)]

\* ------------------------------------------------------------ TypeRegistry

\* get_dynamic_layout: the layout registered under name, NoLayout for None.
get_dynamic_layout(reg, name) == IF name \in DOMAIN reg THEN reg[name] ELSE NoLayout

\* ------------------------------------------------------------------ inputs

\* Field names of SpecLayout's field lists ("u8" is also a type's name).
FieldNames == {"a", "b", "u8"}

\* Field names of the schemas Spec instantiates, and the names it asks for.
InstNames == {"a", "b"}
AskNames == InstNames \cup {"zz"}

\* Schema names registered, and asked of create_dynamic.
SchemaName == "Test"
LookupNames == {"Test", "Nope"}

\* Field types of the schemas Spec instantiates, and the types it asks for.
InstTypes == {"u8", "i32", "Arc"}

FieldLists(names, types, n) ==
    UNION { [1..k -> [name : names, ty : types]] : k \in 0..n }

\* Values written by the set operations, per type (the defaults are 0).
\* An Arc argument is always a new allocation (Arc::new).
WriteValues(T) ==
    CASE T = "u8" -> {7}
      [] T = "i32" -> {-1337}
      [] OTHER -> {0}

\* What an out-of-bounds byte read may yield.
JunkBytes == {0, 170}

\* The threads of the registry specification.
Threads == 1..MaxThreads

\* The types asked of static_types; add_all::<u8> registers both.
RegTypes == {"u8", "Vec<u8>"}
AddAllTypes(T) == {T, "Vec<" \o T \o ">"} \cap RegTypes

\* Schema names registered by the threads, and names looked up (a name is
\* unknown until its first add_dyn).
RegNames == {"Test", "Other"}
RegAskNames == RegNames

\* The field lists of the schemas the threads register.
RegFieldLists ==
    { <<[name |-> "a", ty |-> "u8"]>>,
      <<[name |-> "a", ty |-> "Arc"], [name |-> "b", ty |-> "u8"]>> }

\* The layouts handed to add_dyn: each built by DynamicTypeLayout::new.
RegLayouts == {DynamicTypeLayout_new(n, fs) : n \in RegNames, fs \in RegFieldLists}

\* ------------------------------------------------------------------- state

VARIABLES
    pc,             \* where the driver is: start, built, registered, live, ...
    fields,         \* the field list DynamicTypeLayout::new was called with
    layout,         \* its result (panic # "": construction panicked)
    dynamic_types,  \* TypeRegistry.dynamic_types: schema name -> layout
    type_layout,    \* DynamicStruct.type_layout of the instance
    data,           \* DynamicStruct.data of the instance
    drops,          \* per allocation: how often its value was destroyed
    dropCalls,      \* per field: destructor calls made by Drop::drop
    assignDrops,    \* per field: destructor runs made by `*ptr = val`
    unwindDrops,    \* arguments destroyed by the unwinding of a panicking accessor
    nextId,         \* the next unused allocation
    castOut,        \* the T a cast returned: [made, bytes]
    last            \* the last operation: its arguments and its result

\* The registry as several threads use it.
VARIABLES
    static_types,   \* TypeRegistry.static_types: TypeId -> Arc<StaticTypeLayout>,
                    \* an Arc being the identity of its allocation
    nextDesc,       \* the next unused Arc<StaticTypeLayout> allocation
    slock,          \* the RwLock of static_types: [w: writer or 0, r: readers]
    dlock,          \* the RwLock of dynamic_types
    th,             \* per thread: the call it is in and where in it
    calls,          \* registry calls begun so far
    added,          \* per schema name: the layouts add_dyn was called with
    handed,         \* per type: the descriptors get_static_layout has returned
    latest,         \* per schema name: the layout of the last add_dyn insert
    created         \* the layout create_dynamic made the instance from

regVars == <<static_types, nextDesc, slock, dlock, th, calls, added, handed,
             latest, created>>

vars == <<pc, fields, layout, dynamic_types, type_layout, data, drops,
          dropCalls, assignDrops, unwindDrops, nextId, castOut, last, regVars>>

Call(op, name, index, ty, val, size, res) ==
    [op |-> op, name |-> name, index |-> index, ty |-> ty, val |-> val,
     size |-> size, res |-> res]

Idle == Call("", "", -1, "", <<>>, -1, Ok(<<>>))

\* A parking_lot RwLock nobody holds.
Unlocked == [w |-> 0, r |-> {}]

\* A thread's frame: the call it is in (op, with its arguments ty, name, lay),
\* where in it (pc), the Arc it made (desc) and what the call returned
\* (outDesc, outLay).
ThRec(p, op, ty, name, lay, desc, outDesc, outLay) ==
    [pc |-> p, op |-> op, ty |-> ty, name |-> name, lay |-> lay, desc |-> desc,
     outDesc |-> outDesc, outLay |-> outLay]

ThIdle == ThRec("idle", "", "", "", NoLayout, 0, 0, NoLayout)

Init ==
    /\ pc = "start"
    /\ fields = <<>>
    /\ layout = NoLayout
    /\ dynamic_types = EmptyMap
    /\ type_layout = NoLayout
    /\ data = <<>>
    /\ drops = [id \in 1..MaxRes |-> 0]
    /\ dropCalls = <<>>
    /\ assignDrops = <<>>
    /\ unwindDrops = 0
    /\ nextId = 1
    /\ castOut = [made |-> FALSE, bytes |-> <<>>]
    /\ last = Idle
    /\ static_types = EmptyMap
    /\ nextDesc = 1
    /\ slock = Unlocked
    /\ dlock = Unlocked
    /\ th = [t \in Threads |-> ThIdle]
    /\ calls = 0
    /\ added = [n \in RegNames |-> {}]
    /\ handed = [T \in RegTypes |-> {}]
    /\ latest = [n \in RegNames |-> NoLayout]
    /\ created = NoLayout

\* ----------------------------------------------------------------- actions

\* DynamicTypeLayout::new("Test", fs) for a field list of at most n fields.
NewOf(names, types, n) ==
    /\ pc = "start"
    /\ \E fs \in FieldLists(names, types, n) :
         LET L == DynamicTypeLayout_new(SchemaName, fs)
         IN  /\ fields' = fs
             /\ layout' = L
             /\ pc' = IF L.panic = "" THEN "built" ELSE "failed"
             /\ last' = Call("new", "", -1, "", <<>>, -1,
                             IF L.panic = "" THEN Ok(<<>>) ELSE Panic(L.panic))
    /\ UNCHANGED <<dynamic_types, type_layout, data, drops, dropCalls,
                   assignDrops, unwindDrops, nextId, castOut, regVars>>

New == NewOf(InstNames, InstTypes, MaxInstFields)

NewLayout == NewOf(FieldNames, Types, MaxFields)

\* TypeRegistry::add_dyn(layout)
AddDyn ==
    /\ pc = "built"
    /\ dynamic_types' = MapInsert(dynamic_types, layout.name, layout)
    /\ pc' = "registered"
    /\ last' = Call("add_dyn", layout.name, -1, "", <<>>, -1, Ok(<<>>))
    /\ UNCHANGED <<fields, layout, type_layout, data, drops, dropCalls,
                   assignDrops, unwindDrops, nextId, castOut, regVars>>

\* TypeRegistry::create_dynamic(name): panics on an unknown name, else
\* DynamicStruct::new of the registered layout.
CreateDynamic ==
    /\ pc = "registered"
    /\ \E name \in LookupNames :
         LET L == get_dynamic_layout(dynamic_types, name)
             r == DynamicStruct_new(L, nextId)
         IN  IF L.panic = "none"
             THEN /\ pc' = "failed"
                  /\ last' = Call("create_dynamic", name, -1, "", <<>>, -1,
                                  Panic("No dynamic type with name"))
                  /\ UNCHANGED <<type_layout, data, dropCalls, assignDrops, nextId>>
             ELSE /\ r.nextId <= MaxRes + 1
                  /\ nextId' = r.nextId
                  /\ last' = Call("create_dynamic", name, -1, "", <<>>, -1,
                                  IF r.panic = "" THEN Ok(<<>>) ELSE Panic(r.panic))
                  /\ IF r.panic = ""
                     THEN /\ pc' = "live"
                          /\ type_layout' = L
                          /\ data' = r.data
                          /\ dropCalls' = Zeros(Len(L.field_types))
                          /\ assignDrops' = Zeros(Len(L.field_types))
                     ELSE /\ pc' = "failed"
                          /\ UNCHANGED <<type_layout, data, dropCalls, assignDrops>>
    /\ UNCHANGED <<fields, layout, dynamic_types, drops, unwindDrops, castOut,
                   regVars>>


\* The arguments of a set: a type and a value of it; an Arc is newly allocated.
SetArgs ==
    UNION { IF T = "Arc"
            THEN (IF nextId <= MaxRes THEN {[ty |-> T, v |-> nextId]} ELSE {})
            ELSE {[ty |-> T, v |-> v] : v \in WriteValues(T)} : T \in InstTypes }

\* The common ending of the write accessors of the live instance: r is the
\* Ret of the DynamicTypeLayout method.  A panic unwinds the owner's frame.
Wrote(op, name, index, a, r) ==
    /\ data' = r.mem.data
    /\ drops' = r.mem.drops
    /\ assignDrops' = r.mem.assignDrops
    /\ unwindDrops' = r.mem.unwindDrops
    /\ nextId' = IF a.ty = "Arc" THEN nextId + 1 ELSE nextId
    /\ last' = Call(op, name, index, a.ty, <<a.v>>, -1, r.res)
    /\ pc' = IF r.res.kind = "Panic" THEN "panicked" ELSE "returned"
    /\ UNCHANGED <<fields, layout, dynamic_types, type_layout, dropCalls, castOut,
                   regVars>>

\* The common ending of the read accessors.
Read(op, name, index, T, res) ==
    /\ last' = Call(op, name, index, T, <<>>, -1, res)
    /\ pc' = IF res.kind = "Panic" THEN "panicked" ELSE "returned"
    /\ UNCHANGED <<fields, layout, dynamic_types, type_layout, data, drops,
                   dropCalls, assignDrops, unwindDrops, nextId, castOut, regVars>>

Indices == 0..MaxInstFields

CurMem == Mem(data, drops, assignDrops, unwindDrops)

\* DynamicStruct::try_set_field
TrySetField ==
    /\ pc = "live"
    /\ \E name \in AskNames, a \in SetArgs :
         Wrote("try_set_field", name, -1, a,
               try_set_field(type_layout, CurMem, name, a.ty, a.v))

\* DynamicStruct::try_set_field_by_index
TrySetFieldByIndex ==
    /\ pc = "live"
    /\ \E index \in Indices, a \in SetArgs :
         Wrote("try_set_field_by_index", "", index, a,
               try_set_field_by_index(type_layout, CurMem, index, a.ty, a.v))

\* DynamicStruct::set_field
SetField ==
    /\ pc = "live"
    /\ \E name \in AskNames, a \in SetArgs :
         Wrote("set_field", name, -1, a,
               set_field(type_layout, CurMem, name, a.ty, a.v))

\* DynamicStruct::set_field_by_index
SetFieldByIndex ==
    /\ pc = "live"
    /\ \E index \in Indices, a \in SetArgs :
         Wrote("set_field_by_index", "", index, a,
               set_field_by_index(type_layout, CurMem, index, a.ty, a.v))

\* DynamicStruct::try_get_field_ref
TryGetFieldRef ==
    /\ pc = "live"
    /\ \E name \in AskNames, T \in InstTypes :
         Read("try_get_field_ref", name, -1, T,
              try_get_field_ref(type_layout, data, name, T))

\* DynamicStruct::try_get_field_ref_by_index
TryGetFieldRefByIndex ==
    /\ pc = "live"
    /\ \E index \in Indices, T \in InstTypes :
         Read("try_get_field_ref_by_index", "", index, T,
              try_get_field_ref_by_index(type_layout, data, index, T))

\* DynamicStruct::try_get_field_mut
TryGetFieldMut ==
    /\ pc = "live"
    /\ \E name \in AskNames, T \in InstTypes :
         Read("try_get_field_mut", name, -1, T,
              try_get_field_ref(type_layout, data, name, T))

\* DynamicStruct::try_get_field_mut_by_index
TryGetFieldMutByIndex ==
    /\ pc = "live"
    /\ \E index \in Indices, T \in InstTypes :
         Read("try_get_field_mut_by_index", "", index, T,
              try_get_field_ref_by_index(type_layout, data, index, T))

\* DynamicStruct::try_clone_field
TryCloneField ==
    /\ pc = "live"
    /\ \E name \in AskNames, T \in InstTypes :
         Read("try_clone_field", name, -1, T,
              try_get_field_ref(type_layout, data, name, T))

\* DynamicStruct::try_clone_field_by_index
TryCloneFieldByIndex ==
    /\ pc = "live"
    /\ \E index \in Indices, T \in InstTypes :
         Read("try_clone_field_by_index", "", index, T,
              try_get_field_ref_by_index(type_layout, data, index, T))

\* DynamicStruct::get_field_ref (get_field_mut and clone_field run the same
\* checks and the same read)
GetFieldRef ==
    /\ pc = "live"
    /\ \E name \in AskNames, T \in InstTypes :
         Read("get_field_ref", name, -1, T, get_field_ref(type_layout, data, name, T))

\* DynamicStruct::get_field_ref_by_index
GetFieldRefByIndex ==
    /\ pc = "live"
    /\ \E index \in Indices, T \in InstTypes :
         Read("get_field_ref_by_index", "", index, T,
              get_field_ref_by_index(type_layout, data, index, T))

\* Target types of a cast, by size: the buffer's length, one byte less, one
\* byte more, and a zero-sized T.
CastSizes == {0, Len(data), Len(data) + 1} \cup (IF Len(data) > 0 THEN {Len(data) - 1} ELSE {})

\* DynamicStruct::cast::<T> of dynamic_types.rs.  self is taken by value, so
\* its Drop runs when cast returns, and during the unwinding when it panics.
Cast ==
    /\ pc = "live"
    /\ \E sizeT \in CastSizes, junk \in JunkBytes :
         LET c == cast(data, sizeT, junk)
             d == Drop_drop(type_layout, c.data, [drops |-> drops, dropCalls |-> dropCalls])
         IN  /\ data' = c.data
             /\ castOut' = [made |-> c.made, bytes |-> c.out]
             /\ drops' = d.drops
             /\ dropCalls' = d.dropCalls
             /\ pc' = IF c.panic = "" THEN "cast" ELSE "dropped"
             /\ last' = Call("cast", "", -1, "", <<>>, sizeT,
                             IF c.panic = "" THEN Ok(<<>>) ELSE Panic(c.panic))
    /\ UNCHANGED <<fields, layout, dynamic_types, type_layout, assignDrops,
                   unwindDrops, nextId, regVars>>

\* DynamicStruct::cast::<T> of main.rs.
CastMain ==
    /\ pc = "live"
    /\ \E sizeT \in CastSizes, junk \in JunkBytes :
         LET c == cast_main(data, sizeT, junk)
             d == Drop_drop(type_layout, c.data, [drops |-> drops, dropCalls |-> dropCalls])
         IN  /\ data' = c.data
             /\ castOut' = [made |-> c.made, bytes |-> c.out]
             /\ drops' = d.drops
             /\ dropCalls' = d.dropCalls
             /\ pc' = IF c.panic = "" THEN "cast" ELSE "dropped"
             /\ last' = Call("cast_main", "", -1, "", <<>>, sizeT,
                             IF c.panic = "" THEN Ok(<<>>) ELSE Panic(c.panic))
    /\ UNCHANGED <<fields, layout, dynamic_types, type_layout, assignDrops,
                   unwindDrops, nextId, regVars>>

\* The instance goes out of scope (or its owner unwinds): Drop::drop.
Drop ==
    /\ pc \in {"live", "panicked"}
    /\ LET d == Drop_drop(type_layout, data, [drops |-> drops, dropCalls |-> dropCalls])
       IN  /\ drops' = d.drops
           /\ dropCalls' = d.dropCalls
    /\ pc' = "dropped"
    /\ last' = Call("drop", "", -1, "", <<>>, -1, Ok(<<>>))
    /\ UNCHANGED <<fields, layout, dynamic_types, type_layout, data,
                   assignDrops, unwindDrops, nextId, castOut, regVars>>

\* The caller has looked at what the accessor returned and goes on.
Resume ==
    /\ pc = "returned"
    /\ pc' = "live"
    /\ last' = Idle
    /\ UNCHANGED <<fields, layout, dynamic_types, type_layout, data, drops,
                   dropCalls, assignDrops, unwindDrops, nextId, castOut, regVars>>

Next ==
    \/ New
    \/ AddDyn
    \/ CreateDynamic
    \/ TrySetField
    \/ TrySetFieldByIndex
    \/ SetField
    \/ SetFieldByIndex
    \/ TryGetFieldRef
    \/ TryGetFieldRefByIndex
    \/ TryGetFieldMut
    \/ TryGetFieldMutByIndex
    \/ TryCloneField
    \/ TryCloneFieldByIndex
    \/ GetFieldRef
    \/ GetFieldRefByIndex
    \/ Resume
    \/ Cast
    \/ CastMain
    \/ Drop

Spec == Init /\ [][Next]_vars

\* DynamicTypeLayout::new alone, over every field list of at most MaxFields
\* fields.
SpecLayout == Init /\ [][NewLayout]_vars

\* ------------------------------------------- the registry among threads

\* The instance and the driver's position: what no registry call but
\* create_dynamic touches.
instVars == <<pc, fields, layout, type_layout, data, drops, dropCalls,
              assignDrops, unwindDrops, nextId, castOut, last>>

statVars == <<static_types, nextDesc, slock, handed>>

dynVars == <<dynamic_types, dlock, added, latest>>

\* RwLock::read(): granted while no writer holds the lock.
\* RwLock::write(): granted while nobody holds it.
CanRead(l) == l.w = 0
CanWrite(l) == l.w = 0 /\ l.r = {}
ReadLocked(l, t) == [l EXCEPT !.r = @ \cup {t}]
\* A read guard that outlives its statement: the lock stays read-locked by t.
ReadUnlocked_GuardKept(l, t) == l

\* The read guard of t is dropped.
ReadUnlocked(l, t) == [l EXCEPT !.r = @ \ {t}]
WriteLocked(l, t) == [w |-> t, r |-> {}]

\* Thread t moves on in its call.
Goto(t, p) == th' = [th EXCEPT ![t].pc = p]

\* Thread t begins a registry call: its first, or the one after a call that
\* has returned.
Begin(t, op, ty, name, lay, first) ==
    /\ th[t].pc \in {"idle", "done"}
    /\ calls < MaxCalls
    /\ calls' = calls + 1
    /\ th' = [th EXCEPT ![t] = ThRec(first, op, ty, name, lay, 0, 0, NoLayout)]

\* get_static_layout::<T>() is called.
CallGetStaticLayout(t) ==
    /\ \E T \in RegTypes : Begin(t, "get_static_layout", T, "", NoLayout, "gsl_read")
    /\ UNCHANGED <<instVars, statVars, dynVars, created>>

\* self.static_types.read()
GslReadLock(t) ==
    /\ th[t].pc = "gsl_read"
    /\ CanRead(slock)
    /\ slock' = ReadLocked(slock, t)
    /\ Goto(t, "gsl_lookup")
    /\ UNCHANGED <<instVars, static_types, nextDesc, handed, dynVars, calls, created>>

\* .get(&TypeId::of::<T>()).cloned(): a hit returns the Arc found; the read
\* guard is released at the end of the `if let` either way.
GslLookup(t) ==
    /\ th[t].pc = "gsl_lookup"
    /\ slock' = ReadUnlocked(slock, t)
    /\ IF th[t].ty \in DOMAIN static_types
       THEN /\ th' = [th EXCEPT ![t].pc = "done",
                                ![t].outDesc = static_types[th[t].ty]]
            /\ handed' = [handed EXCEPT ![th[t].ty] = @ \cup {static_types[th[t].ty]}]
       ELSE /\ Goto(t, "gsl_new")
            /\ UNCHANGED handed
    /\ UNCHANGED <<instVars, static_types, nextDesc, dynVars, calls, created>>

\* let ty = Arc::new(StaticTypeLayout::of::<T>()): a new allocation.
GslNew(t) ==
    /\ th[t].pc = "gsl_new"
    /\ th' = [th EXCEPT ![t].pc = "gsl_write", ![t].desc = nextDesc]
    /\ nextDesc' = nextDesc + 1
    /\ UNCHANGED <<instVars, static_types, slock, handed, dynVars, calls, created>>

\* self.static_types.write()
GslWriteLock(t) ==
    /\ th[t].pc = "gsl_write"
    /\ CanWrite(slock)
    /\ slock' = WriteLocked(slock, t)
    /\ Goto(t, "gsl_insert")
    /\ UNCHANGED <<instVars, static_types, nextDesc, handed, dynVars, calls, created>>

\* .insert(TypeId::of::<T>(), ty.clone()); the guard is released; ty is
\* returned.
GslInsert(t) ==
    /\ th[t].pc = "gsl_insert"
    /\ static_types' = MapInsert(static_types, th[t].ty, th[t].desc)
    /\ slock' = Unlocked
    /\ th' = [th EXCEPT ![t].pc = "done", ![t].outDesc = th[t].desc]
    /\ handed' = [handed EXCEPT ![th[t].ty] = @ \cup {th[t].desc}]
    /\ UNCHANGED <<instVars, nextDesc, dynVars, calls, created>>

\* add::<T>() is called.
CallAdd(t) ==
    /\ \E T \in RegTypes : Begin(t, "add", T, "", NoLayout, "add_write")
    /\ UNCHANGED <<instVars, statVars, dynVars, created>>

\* add_all::<T>() is called.
CallAddAll(t) ==
    /\ Begin(t, "add_all", "u8", "", NoLayout, "add_write")
    /\ UNCHANGED <<instVars, statVars, dynVars, created>>

\* self.static_types.write() of add and add_all
AddWriteLock(t) ==
    /\ th[t].pc = "add_write"
    /\ CanWrite(slock)
    /\ slock' = WriteLocked(slock, t)
    /\ Goto(t, "add_insert")
    /\ UNCHANGED <<instVars, static_types, nextDesc, handed, dynVars, calls, created>>

\* add: .insert(TypeId::of::<T>(), Arc::new(StaticTypeLayout::of::<T>())), a new
\* Arc whatever the map holds.  add_all: the same for T and every type
\* derived from it, under the one guard.
AddInsert(t) ==
    /\ th[t].pc = "add_insert"
    /\ LET ts == IF th[t].op = "add" THEN {th[t].ty} ELSE AddAllTypes(th[t].ty)
           descFor(x) == IF x = th[t].ty THEN nextDesc ELSE nextDesc + 1
       IN  /\ static_types' = [x \in (DOMAIN static_types) \cup ts |->
                                 IF x \in ts THEN descFor(x) ELSE static_types[x]]
           /\ nextDesc' = nextDesc + Cardinality(ts)
    /\ slock' = Unlocked
    /\ Goto(t, "done")
    /\ UNCHANGED <<instVars, handed, dynVars, calls, created>>

\* add_dyn(layout) is called with a layout DynamicTypeLayout::new built.
CallAddDyn(t) ==
    /\ \E L \in RegLayouts :
         /\ Begin(t, "add_dyn", "", L.name, L, "adddyn_write")
         /\ added' = [added EXCEPT ![L.name] = @ \cup {L}]
    /\ UNCHANGED <<instVars, statVars, dynamic_types, dlock, latest, created>>

\* self.dynamic_types.write()
AddDynWriteLock(t) ==
    /\ th[t].pc = "adddyn_write"
    /\ CanWrite(dlock)
    /\ dlock' = WriteLocked(dlock, t)
    /\ Goto(t, "adddyn_insert")
    /\ UNCHANGED <<instVars, statVars, dynamic_types, added, latest, calls, created>>

\* .insert(layout.name.clone(), Arc::new(layout)); the guard is released.
AddDynInsert(t) ==
    /\ th[t].pc = "adddyn_insert"
    /\ dynamic_types' = MapInsert(dynamic_types, th[t].lay.name, th[t].lay)
    /\ latest' = [latest EXCEPT ![th[t].name] = th[t].lay]
    /\ dlock' = Unlocked
    /\ Goto(t, "done")
    /\ UNCHANGED <<instVars, statVars, added, calls, created>>

\* get_dynamic_layout(name) is called.
CallGetDynamicLayout(t) ==
    /\ \E n \in RegAskNames : Begin(t, "get_dynamic_layout", "", n, NoLayout, "gdl_read")
    /\ UNCHANGED <<instVars, statVars, dynVars, created>>

\* create_dynamic(name) is called (the model holds one instance).
CallCreateDynamic(t) ==
    /\ pc = "start"
    /\ \A u \in Threads : th[u].op # "create_dynamic"
    /\ \E n \in RegAskNames : Begin(t, "create_dynamic", "", n, NoLayout, "gdl_read")
    /\ UNCHANGED <<instVars, statVars, dynVars, created>>

\* self.dynamic_types.read()
GdlReadLock(t) ==
    /\ th[t].pc = "gdl_read"
    /\ CanRead(dlock)
    /\ dlock' = ReadLocked(dlock, t)
    /\ Goto(t, "gdl_get")
    /\ UNCHANGED <<instVars, statVars, dynamic_types, added, latest, calls, created>>

\* .get(name).cloned(); the guard is released.  create_dynamic goes on with
\* what get_dynamic_layout returned.
GdlGet(t) ==
    /\ th[t].pc = "gdl_get"
    /\ dlock' = ReadUnlocked(dlock, t)
    /\ th' = [th EXCEPT ![t].pc = IF th[t].op = "create_dynamic" THEN "create_new"
                                  ELSE "done",
                        ![t].outLay = get_dynamic_layout(dynamic_types, th[t].name)]
    /\ UNCHANGED <<instVars, statVars, dynamic_types, added, latest, calls, created>>

\* create_dynamic: unwrap_or_else(panic) and DynamicStruct::new(layout).
CreateNew(t) ==
    /\ th[t].pc = "create_new"
    /\ LET L == th[t].outLay
           r == DynamicStruct_new(L, nextId)
       IN  IF L.panic = "none" \/ r.panic # ""
           THEN /\ Goto(t, "panicked")
                /\ UNCHANGED <<instVars, created>>
           ELSE /\ Goto(t, "done")
                /\ pc' = "live"
                /\ type_layout' = L
                /\ created' = L
                /\ data' = r.data
                /\ nextId' = r.nextId
                /\ dropCalls' = Zeros(Len(L.field_types))
                /\ assignDrops' = Zeros(Len(L.field_types))
                /\ last' = Call("create_dynamic", th[t].name, -1, "", <<>>, -1, Ok(<<>>))
                /\ UNCHANGED <<fields, layout, drops, unwindDrops, castOut>>
    /\ UNCHANGED <<statVars, dynVars, calls>>

\* The layout resolved by name at each use, instead of the Arc the instance
\* holds.
Self_type_layout_ByName == get_dynamic_layout(dynamic_types, type_layout.name)

\* self.type_layout of the instance: the Arc<DynamicTypeLayout> it was given
\* at creation.
Self_type_layout == type_layout

\* What the owner writes while the registry is in use: a u8, or a new Arc
\* while the instance's default is the only Arc there is.
RegSetArgs == {a \in SetArgs : a.ty = "u8" \/ (a.ty = "Arc" /\ a.v = 2)}

\* DynamicStruct::try_set_field of field "a" on the instance, whatever the
\* registry does.
RegTrySetField ==
    /\ pc = "live"
    /\ \E a \in RegSetArgs :
         Wrote("try_set_field", "a", -1, a,
               try_set_field(Self_type_layout, CurMem, "a", a.ty, a.v))

\* The instance goes out of scope: Drop::drop.
RegDrop ==
    /\ pc = "live"
    /\ LET d == Drop_drop(Self_type_layout, data, [drops |-> drops, dropCalls |-> dropCalls])
       IN  /\ drops' = d.drops
           /\ dropCalls' = d.dropCalls
    /\ pc' = "dropped"
    /\ last' = Call("drop", "", -1, "", <<>>, -1, Ok(<<>>))
    /\ UNCHANGED <<fields, layout, dynamic_types, type_layout, data,
                   assignDrops, unwindDrops, nextId, castOut, regVars>>

\* A thread begins a call on static_types, or takes the next step of one.
StaticCall(t) ==
    \/ CallGetStaticLayout(t)
    \/ CallAdd(t)
    \/ CallAddAll(t)

StaticStep(t) ==
    \/ GslReadLock(t)
    \/ GslLookup(t)
    \/ GslNew(t)
    \/ GslWriteLock(t)
    \/ GslInsert(t)
    \/ AddWriteLock(t)
    \/ AddInsert(t)

\* A thread begins a call on dynamic_types, or takes the next step of one.
DynamicCall(t) ==
    \/ CallAddDyn(t)
    \/ CallGetDynamicLayout(t)
    \/ CallCreateDynamic(t)

DynamicStep(t) ==
    \/ AddDynWriteLock(t)
    \/ AddDynInsert(t)
    \/ GdlReadLock(t)
    \/ GdlGet(t)
    \/ CreateNew(t)

\* What the owner of the instance does with it.
InstanceStep ==
    \/ RegTrySetField
    \/ Resume
    \/ RegDrop

NextStatic ==
    \/ \E t \in Threads : StaticCall(t)
    \/ \E t \in Threads : StaticStep(t)

NextThreads ==
    \/ \E t \in Threads : DynamicCall(t)
    \/ \E t \in Threads : DynamicStep(t)

NextDynamic ==
    \/ NextThreads
    \/ InstanceStep

NextRegistry == NextStatic \/ NextDynamic

\* MaxThreads threads using the static_types half of one registry.
SpecStatic == Init /\ [][NextStatic]_vars

\* MaxThreads threads using the dynamic_types half of one registry, and the
\* instance one of them creates.
SpecDynamic == Init /\ [][NextDynamic]_vars

\* The threads' calls alone, where every thread that can take a step of its
\* call eventually takes it (the threads are scheduled; parking_lot's locks
\* are handed over).
SpecDynamicFair ==
    /\ Init
    /\ [][NextThreads]_vars
    /\ \A t \in Threads : WF_vars(DynamicStep(t))

\* Both halves together.
SpecRegistry == Init /\ [][NextRegistry]_vars

\* The key the threads contend for on each map when both maps are in use: one
\* type of static_types and one schema name of dynamic_types.
LockType == "u8"
LockLayout == DynamicTypeLayout_new(SchemaName, <<[name |-> "a", ty |-> "u8"]>>)

\* Thread t begins one of the six registry calls, on the contended keys.
CallOnLockKey(t) ==
    \/ /\ Begin(t, "get_static_layout", LockType, "", NoLayout, "gsl_read")
       /\ UNCHANGED <<instVars, statVars, dynVars, created>>
    \/ /\ Begin(t, "add", LockType, "", NoLayout, "add_write")
       /\ UNCHANGED <<instVars, statVars, dynVars, created>>
    \/ /\ Begin(t, "add_all", LockType, "", NoLayout, "add_write")
       /\ UNCHANGED <<instVars, statVars, dynVars, created>>
    \/ /\ Begin(t, "add_dyn", "", LockLayout.name, LockLayout, "adddyn_write")
       /\ added' = [added EXCEPT ![LockLayout.name] = @ \cup {LockLayout}]
       /\ UNCHANGED <<instVars, statVars, dynamic_types, dlock, latest, created>>
    \/ /\ Begin(t, "get_dynamic_layout", "", SchemaName, NoLayout, "gdl_read")
       /\ UNCHANGED <<instVars, statVars, dynVars, created>>
    \/ /\ pc = "start"
       /\ \A u \in Threads : th[u].op # "create_dynamic"
       /\ Begin(t, "create_dynamic", "", SchemaName, NoLayout, "gdl_read")
       /\ UNCHANGED <<instVars, statVars, dynVars, created>>

\* The threads' calls on both halves of the registry.
NextCalls ==
    \/ \E t \in Threads : CallOnLockKey(t)
    \/ \E t \in Threads : StaticStep(t)
    \/ \E t \in Threads : DynamicStep(t)

\* A step of the call thread t is in, on either map.
CallStep(t) == StaticStep(t) \/ DynamicStep(t)

\* The threads' calls on both maps, where every thread that can take a step
\* of its call eventually takes it.
SpecRegistryFair ==
    /\ Init
    /\ [][NextCalls]_vars
    /\ \A t \in Threads : WF_vars(CallStep(t))


\* ===================================================================
\* Claims
\* ===================================================================

\* The field list's declared alignment and size of the i-th field (1-based).
FieldAlign(i) == align_of(fields[i].ty)
FieldSize(i) == size_of(fields[i].ty)

\* DynamicTypeLayout::new returned a layout for `fields`.
Built == pc = "built" /\ layout.panic = ""

\* k is the smallest multiple of align that is >= lo.
SmallestMultipleFrom(k, lo, align) ==
    /\ k >= lo
    /\ k % align = 0
    /\ \A j \in lo..k : j % align = 0 => j = k

\* C1: in every layout DynamicTypeLayout::new builds, the first offset is 0,
\* every later offset is the smallest multiple of its field's alignment at or
\* after the end of the field before it; so every offset is aligned and
\* adjacent fields do not overlap.
C1_OffsetsPacked ==
    Built =>
      /\ Len(layout.field_offsets) = Len(fields)
      /\ layout.field_sizes = [i \in 1..Len(fields) |-> FieldSize(i)]
      /\ \A i \in 1..Len(fields) :
           /\ i = 1 => layout.field_offsets[i] = 0
           /\ i > 1 => SmallestMultipleFrom(layout.field_offsets[i],
                          layout.field_offsets[i - 1] + layout.field_sizes[i - 1],
                          FieldAlign(i))
           /\ layout.field_offsets[i] % FieldAlign(i) = 0
           /\ i > 1 => layout.field_offsets[i] >=
                          layout.field_offsets[i - 1] + layout.field_sizes[i - 1]

\* C1 witness: a three-field layout in which a field had to be padded forward
\* and another field followed its predecessor directly.
C1_Witness ==
    /\ Built
    /\ Len(fields) = 3
    /\ \E i \in 2..3 : layout.field_offsets[i] >
                         layout.field_offsets[i - 1] + layout.field_sizes[i - 1]
    /\ \E i \in 2..3 : layout.field_offsets[i] =
                         layout.field_offsets[i - 1] + layout.field_sizes[i - 1]

\* Two entries of the field list carry the same field name.
HasDuplicateName(fs) ==
    \E i, j \in 1..Len(fs) : i # j /\ fs[i].name = fs[j].name

\* C2 (as claimed): DynamicTypeLayout::new panics on every field list in which
\* two fields share a name, so no such layout exists.
C2_DuplicateNameAlwaysPanics ==
    (pc # "start" /\ HasDuplicateName(fields)) => layout.panic # ""


\* ------------------------------------------------- the instance's lifetime

\* A DynamicStruct was created (and may since have been cast or dropped).
HasInstance == pc \in {"live", "returned", "panicked", "dropped", "cast"}

Slots == 1..Len(type_layout.field_drop_fns)

HasDestructor(i) == type_layout.field_drop_fns[i] # "None"

RECURSIVE SumSeq(_)
SumSeq(q) == IF q = <<>> THEN 0 ELSE Head(q) + SumSeq(Tail(q))

\* Destructions of allocations so far, over all allocations.
TotalDestroyed == SumSeq(drops)

\* The allocation the handle stored in slot i of buffer bs addresses.
HandleIn(bs, i) ==
    FromBytes(type_layout.field_drop_fns[i],
              ReadAt(bs, type_layout.field_offsets[i], type_layout.field_sizes[i]))

SetOps == {"try_set_field", "try_set_field_by_index", "set_field", "set_field_by_index"}

C3_Accounting ==
    HasInstance =>
      /\ \A i \in Slots :
           IF HasDestructor(i)
           THEN /\ dropCalls[i] <= 1
                /\ pc = "dropped" => dropCalls[i] = 1
                /\ pc # "dropped" => dropCalls[i] = 0
           ELSE dropCalls[i] = 0 /\ assignDrops[i] = 0
      /\ \A id \in DOMAIN drops : drops[id] <= 1
      /\ TotalDestroyed = SumSeq(dropCalls) + SumSeq(assignDrops) + unwindDrops

\* C3, the step part: a successful set of a field that has a destructor runs the
\* destructor on that slot once more, on the value it replaces; no other
\* accessor runs a slot's destructor.
C3_SetStep ==
    pc = "live" =>
      IF last'.op \in SetOps /\ last'.res.kind = "Ok" /\ needs_drop(last'.ty)
      THEN \E i \in Slots :
             /\ HasDestructor(i)
             /\ assignDrops' = [assignDrops EXCEPT ![i] = @ + 1]
             /\ drops' = [drops EXCEPT ![HandleIn(data, i)] = @ + 1]
             /\ dropCalls' = dropCalls
      ELSE assignDrops' = assignDrops

C4_CastLeavesNothingToDrop ==
    (pc = "cast" /\ last.op = "cast") =>
      /\ data = <<>>
      /\ castOut.made
      /\ \A i \in Slots :
           /\ dropCalls[i] = 0
           /\ HasDestructor(i) =>
                /\ HandleIn(castOut.bytes, i) \in DOMAIN drops
                /\ drops[HandleIn(castOut.bytes, i)] = 0

\* C4 witness: a successful cast of an instance that holds a field with a
\* destructor.
C4_Witness ==
    /\ pc = "cast"
    /\ last.op = "cast"
    /\ last.res.kind = "Ok"
    /\ \E i \in Slots : HasDestructor(i)

\* C5 (as claimed): a cast to a T whose size differs from the buffer's length
\* panics with the buffer untouched and no T produced, in dynamic_types.rs and
\* in main.rs alike.
C5_MismatchedCastPanics ==
    (last.op \in {"cast", "cast_main"} /\ last.size # type_layout.total_size) =>
      /\ last.res.kind = "Panic"
      /\ ~castOut.made
      /\ Len(data) = type_layout.total_size

\* C6: a cast to a T of the buffer's size succeeds and returns the bytes the
\* buffer held immediately before the cast.
C6_CastReturnsBuffer ==
    [][(pc = "live" /\ last'.op = "cast" /\ last'.size = Len(data)) =>
          /\ last'.res.kind = "Ok"
          /\ castOut'.made
          /\ castOut'.bytes = data]_vars

\* C6 witness: a successful cast of a buffer that holds a written u8 and the
\* handle a set stored over a default one.
C6_Witness ==
    /\ pc = "cast"
    /\ last.op = "cast"
    /\ last.res.kind = "Ok"
    /\ \E k \in 1..Len(castOut.bytes) : castOut.bytes[k] = 7
    /\ \E i \in Slots : HasDestructor(i) /\ assignDrops[i] >= 1

\* The allocation Arc::default() made for field i of the instance (the
\* defaults are produced in field order, from allocation 1).
DefaultIdOf(i) == 1 + Cardinality({j \in 1..(i - 1) : needs_drop(fields[j].ty)})

Fresh == pc = "live" /\ last.op = "create_dynamic" /\ last.res.kind = "Ok"

\* C7 (as claimed): on a freshly created instance the checked read of every
\* field, by its name and declared type, returns the type's default value, and
\* the bytes at the field's offset are the default byte image.
C7_FreshReadsDefault ==
    Fresh =>
      \A i \in 1..Len(fields) :
        /\ try_get_field_ref(type_layout, data, fields[i].name, fields[i].ty)
             = Ok(<<DefaultValue(fields[i].ty, DefaultIdOf(i))>>)
        /\ ReadAt(data, type_layout.field_offsets[i], type_layout.field_sizes[i])
             = default_bytes(fields[i].ty, DefaultIdOf(i))

\* The same read by index (holds: checked beside C7).
FreshReadsDefaultByIndex ==
    Fresh =>
      \A i \in 1..Len(fields) :
        /\ try_get_field_ref_by_index(type_layout, data, i - 1, fields[i].ty)
             = Ok(<<DefaultValue(fields[i].ty, DefaultIdOf(i))>>)
        /\ ReadAt(data, type_layout.field_offsets[i], type_layout.field_sizes[i])
             = default_bytes(fields[i].ty, DefaultIdOf(i))

\* Field i of the schema is declared with name n and type T.
Declared(i, n, T) == i \in 1..Len(fields) /\ fields[i].name = n /\ fields[i].ty = T

\* C8 (as claimed): a checked set of a value of a field's declared type, by the
\* field's name or index, returns Ok, and the checked read of that field then
\* returns the value written.
C8_SetThenGet ==
    /\ (HasInstance /\ last.op = "try_set_field"
          /\ \E i \in 1..Len(fields) : Declared(i, last.name, last.ty)) =>
         /\ last.res.kind = "Ok"
         /\ try_get_field_ref(type_layout, data, last.name, last.ty) = Ok(last.val)
    /\ (HasInstance /\ last.op = "try_set_field_by_index"
          /\ \E n \in InstNames : Declared(last.index + 1, n, last.ty)) =>
         /\ last.res.kind = "Ok"
         /\ try_get_field_ref_by_index(type_layout, data, last.index, last.ty)
              = Ok(last.val)

\* The by-index half of C8 alone (holds: checked beside C8).
SetThenGetByIndex ==
    (HasInstance /\ last.op = "try_set_field_by_index"
       /\ \E n \in InstNames : Declared(last.index + 1, n, last.ty)) =>
      /\ last.res.kind = "Ok"
      /\ try_get_field_ref_by_index(type_layout, data, last.index, last.ty)
           = Ok(last.val)

CheckedGetByName == {"try_get_field_ref", "try_get_field_mut", "try_clone_field"}
CheckedGetByIndex ==
    {"try_get_field_ref_by_index", "try_get_field_mut_by_index", "try_clone_field_by_index"}

\* The type-mismatch error of a checked operation.
IsMismatch(c) ==
    /\ c.res.kind = "Err"
    /\ c.res.variant = (IF c.op \in SetOps THEN "SetInvalidTypeOfField"
                        ELSE "GetInvalidTypeOfField")
    /\ c.res.type_requested = type_name(c.ty)
    /\ c.res.out = <<>>

\* C9 (as claimed): a checked operation on an existing field, asked for with a
\* type other than the field's declared type, returns the type-mismatch error
\* and no value.
C9_WrongTypeIsMismatch ==
    /\ (HasInstance /\ last.op \in CheckedGetByName \cup {"try_set_field"}
          /\ \E i \in 1..Len(fields) : fields[i].name = last.name /\ fields[i].ty # last.ty)
         => IsMismatch(last)
    /\ (HasInstance /\ last.op \in CheckedGetByIndex \cup {"try_set_field_by_index"}
          /\ last.index < Len(fields) /\ fields[last.index + 1].ty # last.ty)
         => IsMismatch(last)

\* The by-index half of C9 alone (holds: checked beside C9).
WrongTypeIsMismatchByIndex ==
    (HasInstance /\ last.op \in CheckedGetByIndex \cup {"try_set_field_by_index"}
       /\ last.index < Len(fields) /\ fields[last.index + 1].ty # last.ty)
      => IsMismatch(last)

FieldNamesOf(fs) == {fs[i].name : i \in 1..Len(fs)}

\* C10: a checked by-name operation asked for a name that no field of the
\* schema has returns the not-found error carrying that name (and, for a set,
\* the value), does not panic, and leaves the buffer and every allocation as
\* they were.
C10_UnknownNameNotFound ==
    [][(pc = "live" /\ last'.op \in CheckedGetByName \cup {"try_set_field"}
          /\ last'.name \notin FieldNamesOf(fields)) =>
          /\ last'.res = Err(IF last'.op = "try_set_field" THEN "SetFieldNameNotFound"
                             ELSE "GetFieldNameNotFound",
                             last'.name, -1,
                             IF last'.op = "try_set_field" THEN last'.val ELSE <<>>,
                             "", "")
          /\ pc' = "returned"
          /\ data' = data
          /\ drops' = drops
          /\ assignDrops' = assignDrops
          /\ dropCalls' = dropCalls]_vars

\* C10 witness: each of the four operations has returned not-found for a
\* name outside the schema; here the set, handed a new Arc.
C10_Witness ==
    /\ pc = "returned"
    /\ last.op = "try_set_field"
    /\ last.name \notin FieldNamesOf(fields)
    /\ last.ty = "Arc"
    /\ last.res.variant = "SetFieldNameNotFound"


\* ------------------------------------------------ indexes and failed sets

CheckedSetOps == {"try_set_field", "try_set_field_by_index"}

\* C11 (as claimed): a checked by-index operation asked for an index that is
\* not below the number of fields returns the out-of-bounds error carrying the
\* index; it does not panic.
C11_IndexOutOfBoundsIsError ==
    (HasInstance /\ last.op \in CheckedGetByIndex \cup {"try_set_field_by_index"}
       /\ last.index >= Len(type_layout.field_types)) =>
      /\ last.res.kind = "Err"
      /\ last.res.variant = (IF last.op = "try_set_field_by_index"
                             THEN "FieldSetIndexOutOfBounds"
                             ELSE "FieldGetIndexOutOfBounds")
      /\ last.res.index = last.index

\* C12: a checked set that returns an error, of whatever kind, hands back in
\* the error exactly the value it was given, not destroyed, and leaves the
\* buffer and every stored value as they were.
C12_FailedSetReturnsValue ==
    [][(pc = "live" /\ last'.op \in CheckedSetOps /\ last'.res.kind = "Err") =>
          /\ last'.res.value = last'.val
          /\ last'.res.variant \in {"SetFieldNameNotFound", "SetInvalidTypeOfField",
                                    "FieldSetIndexOutOfBounds"}
          /\ data' = data
          /\ drops' = drops
          /\ assignDrops' = assignDrops
          /\ unwindDrops' = unwindDrops]_vars

\* C12 witness: a by-index set of a new Arc into a field of another type has
\* returned the type-mismatch error.
C12_Witness ==
    /\ pc = "returned"
    /\ last.op = "try_set_field_by_index"
    /\ last.ty = "Arc"
    /\ last.res.kind = "Err"
    /\ last.res.variant = "SetInvalidTypeOfField"
    /\ last.res.value = last.val

\* The out-of-bounds error of a checked set is never returned (the index test
\* follows the indexing that panics): checked beside C12.
NoSetIndexOutOfBoundsError ==
    last.res.variant \notin {"FieldSetIndexOutOfBounds", "FieldGetIndexOutOfBounds"}

\* ------------------------------------------------------------ total_size

\* The end of the last field of the layout new() built (0 without fields).
EndOfLastField ==
    IF Len(layout.field_offsets) = 0 THEN 0
    ELSE layout.field_offsets[Len(layout.field_offsets)]
           + layout.field_sizes[Len(layout.field_sizes)]

RECURSIVE MaxAlign(_)
MaxAlign(fs) ==
    IF fs = <<>> THEN 1
    ELSE LET m == MaxAlign(Tail(fs))
             a == align_of(Head(fs).ty)
         IN  IF a > m THEN a ELSE m

\* C13 (as claimed): in every layout new() builds total_size is at least the
\* end of the last field, so every field lies inside the buffer
\* DynamicStruct::new allocates (which therefore does not panic).
C13_TotalSizeCoversFields ==
    Built =>
      /\ layout.total_size >= EndOfLastField
      /\ \A i \in 1..Len(fields) :
           layout.field_offsets[i] + layout.field_sizes[i] <= layout.total_size
      /\ DynamicStruct_new(layout, 1).panic = ""

\* Without a zero-sized field of alignment above 1, total_size is exactly the
\* end of the last field (checked beside C13).
TotalSizeIsEndOfLastField ==
    (Built /\ \A i \in 1..Len(fields) : fields[i].ty # "[u64; 0]") =>
      layout.total_size = EndOfLastField

\* C14 (as claimed): in every layout new() builds total_size is a multiple of
\* the largest alignment among the fields.
C14_TotalSizeTailPadded ==
    Built => layout.total_size % MaxAlign(fields) = 0

\* C15 (as claimed): new() with an empty field list returns a layout with no
\* fields and total_size = 0.
C15_EmptySchemaBuilds ==
    (pc # "start" /\ fields = <<>>) =>
      /\ layout.panic = ""
      /\ layout.total_size = 0
      /\ layout.field_offsets = <<>>


\* ------------------------------------------------ the value a set replaces

\* A write accessor has stored its value.
Stores(c) == c.op \in SetOps /\ c.res.kind = "Ok"

\* The slot (1-based) a write accessor call addresses.
TargetSlot(c) ==
    IF c.op \in {"try_set_field_by_index", "set_field_by_index"}
    THEN c.index + 1
    ELSE type_layout.name_to_index[c.name] + 1

C16_OneDescriptorPerType ==
    \A T \in RegTypes : Cardinality(handed[T]) <= 1

\* An add_dyn under name n has completed.
AddDynDone(n) == latest[n] # NoLayout

\* Thread t holds what get_dynamic_layout returned to it.
HasLookup(t) ==
    /\ th[t].op \in {"get_dynamic_layout", "create_dynamic"}
    /\ th[t].pc \in {"done", "create_new"}

\* A completely constructed layout: one DynamicTypeLayout::new returned.
Complete(L) == L \in RegLayouts /\ L.panic = ""

\* C17, the state part: once an add_dyn under a name has completed the name is
\* registered with a layout add_dyn was called with under that name (the one
\* layout, when the calls used distinct names); a lookup returned None or a
\* complete layout registered under the name asked.
C17_Registered ==
    /\ \A n \in RegNames :
         AddDynDone(n) =>
           /\ n \in DOMAIN dynamic_types
           /\ dynamic_types[n] \in added[n]
           /\ \A L \in RegLayouts : added[n] = {L} => dynamic_types[n] = L
    /\ \A t \in Threads :
         HasLookup(t) =>
           \/ th[t].outLay = NoLayout
           \/ /\ Complete(th[t].outLay)
              /\ th[t].outLay.name = th[t].name
              /\ th[t].outLay \in added[th[t].name]

\* C17, the step part: no step takes a registration away.
C17_NothingLost ==
    \A n \in DOMAIN dynamic_types : n \in DOMAIN dynamic_types'

\* C17: concurrent add_dyn calls all complete (from some point on no add_dyn
\* is left unfinished: the calls are finitely many), every registration is visible
\* under its name afterwards and none is lost, and a concurrent
\* get_dynamic_layout returns None or a completely constructed layout.
C17_ConcurrentAddDyn ==
    /\ []C17_Registered
    /\ [][C17_NothingLost]_vars
    /\ <>[](\A t \in Threads : th[t].op = "add_dyn" => th[t].pc = "done")

\* C17 witness: two threads have each completed an add_dyn, under distinct
\* names, and both layouts are registered.
C17_Witness ==
    \E t, u \in Threads :
      /\ th[t].op = "add_dyn" /\ th[t].pc = "done"
      /\ th[u].op = "add_dyn" /\ th[u].pc = "done"
      /\ th[t].name # th[u].name
      /\ added[th[t].name] = {th[t].lay}
      /\ added[th[u].name] = {th[u].lay}
      /\ dynamic_types[th[t].name] = th[t].lay
      /\ dynamic_types[th[u].name] = th[u].lay

\* C18, the state part: get_dynamic_layout(name) is the layout of the last
\* add_dyn insert under that name, None when there was none.
C18_LatestRegistered ==
    \A n \in RegNames : get_dynamic_layout(dynamic_types, n) = latest[n]

\* C18, the step part: an add_dyn insert registers its layout under its name
\* and leaves every other entry as it was; a lookup returns the layout last
\* registered under the name; create_dynamic makes the instance from the
\* layout its lookup returned.
C18_Step ==
    \A t \in Threads :
      /\ (th[t].pc = "adddyn_insert" /\ th'[t].pc = "done") =>
           /\ DOMAIN dynamic_types' = (DOMAIN dynamic_types) \cup {th[t].name}
           /\ dynamic_types'[th[t].name] = th[t].lay
           /\ \A m \in (DOMAIN dynamic_types) \ {th[t].name} :
                dynamic_types'[m] = dynamic_types[m]
      /\ (th[t].pc = "gdl_get" /\ th'[t].pc # "gdl_get") =>
           th'[t].outLay = latest[th[t].name]
      /\ (th[t].pc = "create_new" /\ th'[t].pc = "done") =>
           /\ type_layout' = th[t].outLay
           /\ Len(data') = th[t].outLay.total_size
           /\ data' = DynamicStruct_new(th[t].outLay, nextId).data

\* C18: add_dyn inserts by name and overwrites; get_dynamic_layout returns
\* the schema most recently registered under the name (None if none was),
\* create_dynamic instantiates it, and entries under other names are unchanged.
C18_AddDynOverwrites == []C18_LatestRegistered /\ [][C18_Step]_vars

\* C18 witness: two different layouts were registered under one name, both
\* add_dyn calls have completed, and a lookup has returned the later one.
C18_Witness ==
    \E n \in RegNames, t \in Threads :
      /\ Cardinality(added[n]) = 2
      /\ \A u \in Threads : th[u].op = "add_dyn" => th[u].pc = "done"
      /\ th[t].op = "get_dynamic_layout" /\ th[t].pc = "done" /\ th[t].name = n
      /\ th[t].outLay = latest[n]
      /\ dynamic_types[n] = latest[n]

\* C20: the instance keeps the schema it was created from, whatever is
\* registered afterwards: the layout it uses is that schema, its buffer is
\* total_size bytes long, every field with a destructor holds a live value at
\* the schema's offset until release, and release calls exactly the schema's
\* destructors.
C20_InstanceSchemaFixed ==
    (pc \in {"live", "returned", "panicked", "dropped"} /\ created # NoLayout) =>
      /\ Self_type_layout = created
      /\ Len(data) = created.total_size
      /\ Len(dropCalls) = Len(created.field_drop_fns)
      /\ \A i \in 1..Len(created.field_drop_fns) :
           IF created.field_drop_fns[i] = "None"
           THEN dropCalls[i] = 0
           ELSE LET id == FromBytes(created.field_drop_fns[i],
                            ReadAt(data, created.field_offsets[i], created.field_sizes[i]))
                IN  /\ id \in DOMAIN drops
                    /\ dropCalls[i] = (IF pc = "dropped" THEN 1 ELSE 0)
                    /\ drops[id] = dropCalls[i]

\* C20 witness: another schema is registered under the name the instance was
\* created from, and the instance has been written to and released.
C20_Witness ==
    /\ pc = "dropped"
    /\ created # NoLayout
    /\ dynamic_types[created.name] # created
    /\ \E i \in 1..Len(assignDrops) : assignDrops[i] >= 1


\* ------------------------------------------- every stored value, counted once

\* The slots whose type has a destructor.
DropSlots == {i \in Slots : HasDestructor(i)}

\* The byte image bs covers slot i.
Covers(bs, i) == Len(bs) >= type_layout.field_offsets[i] + type_layout.field_sizes[i]

\* The value in slot i of bs is an allocation that has been destroyed n times.
SlotValueDestroyed(bs, i, n) ==
    /\ Covers(bs, i)
    /\ HandleIn(bs, i) \in DOMAIN drops
    /\ drops[HandleIn(bs, i)] = n

\* C21 (as claimed): counted per value, every value stored in a field whose
\* type has a destructor is destroyed at most once; while the instance lives
\* the values in its slots are alive; once the instance is released each of
\* them has been destroyed exactly once; and after a successful cast each of
\* them is alive and owned by the returned T (its handle is in T's bytes, one
\* slot per value), so none is destroyed twice and none is leaked.
C21_EveryValueOnce ==
    HasInstance =>
      /\ \A id \in DOMAIN drops : drops[id] <= 1
      /\ pc \in {"live", "returned", "panicked"} =>
           \A i \in DropSlots : SlotValueDestroyed(data, i, 0)
      /\ pc = "dropped" => \A i \in DropSlots : SlotValueDestroyed(data, i, 1)
      /\ pc = "cast" =>
           /\ castOut.made
           /\ \A i \in DropSlots : SlotValueDestroyed(castOut.bytes, i, 0)
           /\ \A i, j \in DropSlots :
                i # j => HandleIn(castOut.bytes, i) # HandleIn(castOut.bytes, j)


\* ------------------------------------------------- what a set leaves alone

\* What the checked read of field j (1-based) with its declared type returns.
ReadBack(L, bs, j) == try_get_field_ref_by_index(L, bs, j - 1, fields[j].ty)

\* C22: a successful set of field i with the declared type changes only the
\* bytes in [field_offsets[i], field_offsets[i] + field_sizes[i]): every byte
\* outside that range is as before, every other field reads back the same
\* value, and the schema and the length of the buffer are unchanged.
C22_SetChangesOnlyItsField ==
    [][(pc = "live" /\ Stores(last')) =>
          LET i == TargetSlot(last')
              lo == type_layout.field_offsets[i]
              hi == lo + type_layout.field_sizes[i]
          IN  /\ type_layout' = type_layout
              /\ fields' = fields
              /\ Len(data') = Len(data)
              /\ hi <= Len(data)
              /\ \A k \in 1..Len(data) : (k <= lo \/ k > hi) => data'[k] = data[k]
              /\ \A j \in Slots \ {i} :
                   ReadBack(type_layout', data', j) = ReadBack(type_layout, data, j)]_vars

\* C22 witness: a set has stored its value in one field of an instance whose
\* other field holds a value written earlier (not the default image).
C22_Witness ==
    /\ pc = "returned"
    /\ Stores(last)
    /\ \E j \in Slots \ {TargetSlot(last)} :
         /\ ReadBack(type_layout, data, j).kind = "Ok"
         /\ ReadAt(data, type_layout.field_offsets[j], type_layout.field_sizes[j])
              # default_bytes(fields[j].ty, DefaultIdOf(j))


\* ---------------------------------------------- distinct names, no duplicate

\* C23 (as claimed): for every non-empty list of distinctly named fields with
\* at least one type of non-zero size, DynamicTypeLayout::new builds the
\* layout (no duplicate is reported) and name_to_index maps the name of the
\* i-th declared field to i (0-based).
C23_DistinctNamesBuild ==
    ( /\ pc # "start"
      /\ fields # <<>>
      /\ ~HasDuplicateName(fields)
      /\ \E i \in 1..Len(fields) : size_of(fields[i].ty) > 0 )
    => /\ layout.panic = ""
       /\ \A i \in 1..Len(fields) :
            /\ fields[i].name \in DOMAIN layout.name_to_index
            /\ layout.name_to_index[fields[i].name] = i - 1


\* ------------------------------------------------- no call waits for ever

\* Thread t holds a guard of lock l.
Holds(l, t) == l.w = t \/ t \in l.r

\* Thread t is about to request a lock of the registry.
Requesting(t) ==
    th[t].pc \in {"gsl_read", "gsl_write", "add_write", "adddyn_write", "gdl_read"}

\* Thread t is in no registry call: it has made none, or its last call has
\* returned or has panicked (create_dynamic of an unknown name).
Outside(t) == th[t].pc \in {"idle", "done", "panicked"}

\* No thread requests a lock of the registry while it holds a guard of either
\* map (its own read guard on the same map included), no thread holds guards
\* of both maps, and only threads inside a call hold a guard.
C24_NoWaitWhileHolding ==
    \A t \in Threads :
      /\ Requesting(t) => ~Holds(slock, t) /\ ~Holds(dlock, t)
      /\ ~(Holds(slock, t) /\ Holds(dlock, t))
      /\ Outside(t) => ~Holds(slock, t) /\ ~Holds(dlock, t)

\* C24: under any interleaving of threads calling get_static_layout, add,
\* add_all, add_dyn, get_dynamic_layout and create_dynamic on one registry,
\* no call waits for a registry lock while holding a guard (get_static_layout
\* has released its read guard before it requests the write lock on a miss),
\* and every call eventually completes: in the end no thread is inside a call.
C24_EveryCallCompletes ==
    /\ []C24_NoWaitWhileHolding
    /\ <>[](\A t \in Threads : Outside(t))

\* C24 witness: get_static_layout has missed and requests the write lock on
\* static_types while another thread holds a read guard on that map.
C24_Witness ==
    \E t, u \in Threads :
      /\ t # u
      /\ th[t].op = "get_static_layout"
      /\ th[t].pc = "gsl_write"
      /\ u \in slock.r
      /\ ~Holds(slock, t)

=============================================================================
